---- MODULE Spec2Model ----
(***************************************************************************)
(* Model of the paged file layer of db/src/file_system/mod.rs: the name    *)
(* directory (name2raw, raw2name), the direct-mapped page cache            *)
(* (BufManager) and the six FileSystem operations, over a model of the     *)
(* operating system's files and descriptor table.                          *)
(*                                                                         *)
(* A page's content is one abstract value (0 is the all-zero page): every  *)
(* transfer in the code moves a whole page.  The raw calls File::create,   *)
(* nix open, lseek, read and write can fail; close and unlink of an        *)
(* existing object cannot.                                                 *)
(***************************************************************************)
EXTENDS Integers, FiniteSets, Sequences, TLC

\* ---------------------------------------------------------------- constants
FD_FIELD == 1
PAGE_FIELD == 6
PAGE_SIZE == 1024
BUF_SIZE == 2 ^ (FD_FIELD + PAGE_FIELD)

\* ------------------------------------------------------------------- bounds
NumNames == 2
NumFds == 3
MaxPage == 0
MaxData == 1
\* number of calls made on the FS in one run
MaxOps == 5
\* number of calls in one run of the one-file client
MaxOpsDeep == 7
\* names and descriptors of the one-file client
NumNamesDeep == 1
NumFdsDeep == 2
\* number of calls in one run of the client whose handles share a slot range
MaxOpsShare == 6
\* largest handle and page number given to _index alone
MaxIndexFd == 4
MaxIndexPage == 130

Names == 1 .. NumNames
\* descriptor numbers (0, 1, 2 are the standard streams)
FDs == 3 .. (2 + NumFds)
\* the descriptors the operating system hands out to the client of Spec
LowFds == 3 .. (1 + NumFds)
\* page numbers used by callers: low pages and one page that wraps onto page 0's slot
Pages == (0 .. MaxPage) \cup {2 ^ PAGE_FIELD}
Data == 0 .. MaxData

\* name2raw values: key absent, Some(fd) is the fd itself
NoKey == -2
\* name2raw value None
NoFd == -1
\* raw2name value: key absent
NoName == 0
\* history values: page never written (a value outside Data), no write just made
NoData == MaxData + 1
NoWrite == <<0, 0, NoData>>

VARIABLES name2raw, raw2name, buf, valid, dirty, dest, disk, fdt, ret, lastW, closedAfter, justWrote, ops

vars == <<name2raw, raw2name, buf, valid, dirty, dest, disk, fdt, ret, lastW, closedAfter, justWrote, ops>>

\* ------------------------------------------------------- operating system
ZeroData == [p \in Pages |-> 0]
NoFile == [size |-> -1, data |-> ZeroData]
EmptyFile == [size |-> 0, data |-> ZeroData]
ClosedFd == [open |-> FALSE, name |-> NoName, file |-> NoFile]

Max(a, b) == IF a > b THEN a ELSE b

\* the program's cache and the storage it acts on, as one value the
\* nested calls thread through; res is the outcome of the call in progress
M == [buf |-> buf, valid |-> valid, dirty |-> dirty, dest |-> dest, disk |-> disk, fdt |-> fdt, res |-> "ok", val |-> 0, cnt |-> 0]

FreeFds(m) == {f \in FDs : ~m.fdt[f].open}

FdOpen(m, fd) == fd \in FDs /\ m.fdt[fd].open

FileOf(m, fd) == IF m.fdt[fd].name # NoName THEN m.disk[m.fdt[fd].name] ELSE m.fdt[fd].file

PutFile(m, fd, f) == IF m.fdt[fd].name # NoName THEN [m EXCEPT !.disk[m.fdt[fd].name] = f] ELSE [m EXCEPT !.fdt[fd].file = f]

\* a write that transfers nothing
raw_write_dropped(m, fd, page, b) == m

\* lseek(fd, page * PAGE_SIZE) then write(fd, buf): the file grows to cover the page
raw_write(m, fd, page, b) == PutFile(m, fd, [size |-> Max(FileOf(m, fd).size, page + 1), data |-> [FileOf(m, fd).data EXCEPT ![page] = b]])

\* lseek(fd, page * PAGE_SIZE) then read(fd, buf): a page beyond the end of the
\* file transfers nothing and leaves the caller's buffer cb as it was
raw_read(m, fd, page, cb) == IF page < FileOf(m, fd).size THEN FileOf(m, fd).data[page] ELSE cb

raw_read_count(m, fd, page) == IF page < FileOf(m, fd).size THEN PAGE_SIZE ELSE 0

\* std::fs::remove_file: the name goes, an open descriptor keeps the file
unlink(m, n) == [m EXCEPT !.disk[n] = NoFile, !.fdt = [f \in FDs |-> IF m.fdt[f].open /\ m.fdt[f].name = n THEN [open |-> TRUE, name |-> NoName, file |-> m.disk[n]] ELSE m.fdt[f]]]

\* ----------------------------------------------------------- BufManager
\* an _index that does not reduce the page number
_index_unreduced(fd, page) == ((fd % (2 ^ FD_FIELD)) * (2 ^ PAGE_FIELD)) + page

_index(fd, page) == ((fd % (2 ^ FD_FIELD)) * (2 ^ PAGE_FIELD)) + (page % (2 ^ PAGE_FIELD))

\* the three assert! of _index hold
_index_asserts(fd, page) ==
  /\ fd % (2 ^ FD_FIELD) < 4
  /\ page % (2 ^ PAGE_FIELD) < 256
  /\ _index(fd, page) < 1024

\* the slots of the BUF_SIZE-element arrays that some call can address; every
\* other slot stays as BufManager::new() made it (valid = false) and is left out
Slots == {_index(fd, page) : fd \in FDs, page \in Pages}

is_cached(m, fd, page) == m.valid[_index(fd, page)] /\ m.dest[_index(fd, page)] = <<fd, page>>

get(m, fd, page) == m.buf[_index(fd, page)]

\* an update that does not mark the slot dirty
update_keeps_flag(m, fd, page, b) == [m EXCEPT !.buf[_index(fd, page)] = b]

update(m, fd, page, b) == [m EXCEPT !.buf[_index(fd, page)] = b, !.dirty[_index(fd, page)] = TRUE]

\* a _create_buf that fills the slot but leaves its owner tag as it was
install_keeps_owner(m, fd, page, b) == [m EXCEPT !.buf[_index(fd, page)] = b, !.valid[_index(fd, page)] = TRUE, !.dirty[_index(fd, page)] = FALSE]

install(m, fd, page, b) == [m EXCEPT !.buf[_index(fd, page)] = b, !.valid[_index(fd, page)] = TRUE, !.dirty[_index(fd, page)] = FALSE, !.dest[_index(fd, page)] = <<fd, page>>]

\* ------------------------------------------------------------------- FS
RECURSIVE write_page(_, _, _, _, _, _)
RECURSIVE _create_buf(_, _, _, _, _)

\* borrowed: a Ref of the RefCell taken by the caller is still alive during
\* the call, so borrow_mut() panics
_create_buf(m, fd, page, b, borrowed) ==
  LET index == _index(fd, page)
      m1 == IF m.valid[index] /\ m.dirty[index]
            THEN write_page(m, m.dest[index][1], m.dest[index][2], m.buf[index], TRUE, TRUE)
            ELSE m
  IN IF m1.res # "ok" THEN [m1 EXCEPT !.res = "panic"]
     ELSE IF borrowed THEN [m1 EXCEPT !.res = "panic"]
     ELSE install(m1, fd, page, b)

write_page(m, fd, page, b, io, borrowed) ==
  IF is_cached(m, fd, page)
  THEN IF borrowed THEN [m EXCEPT !.res = "panic"]
       ELSE [update(m, fd, page, b) EXCEPT !.cnt = PAGE_SIZE]
  ELSE IF ~(io /\ FdOpen(m, fd)) THEN [m EXCEPT !.res = "err"]
  ELSE [_create_buf(raw_write(m, fd, page, b), fd, page, b, borrowed) EXCEPT !.cnt = PAGE_SIZE]

\* a read_page that installs the caller's buffer before the raw calls are known to succeed
read_page_installs_first(m, fd, page, cb, io) ==
  IF is_cached(m, fd, page)
  THEN [m EXCEPT !.val = get(m, fd, page), !.cnt = PAGE_SIZE]
  ELSE IF ~(io /\ FdOpen(m, fd)) THEN [install(m, fd, page, cb) EXCEPT !.res = "err"]
  ELSE [_create_buf(m, fd, page, raw_read(m, fd, page, cb), FALSE) EXCEPT !.val = raw_read(m, fd, page, cb), !.cnt = PAGE_SIZE]

read_page(m, fd, page, cb, io) ==
  IF is_cached(m, fd, page)
  THEN [m EXCEPT !.val = get(m, fd, page), !.cnt = PAGE_SIZE]
  ELSE IF ~(io /\ FdOpen(m, fd)) THEN [m EXCEPT !.res = "err"]
  ELSE [_create_buf(m, fd, page, raw_read(m, fd, page, cb), FALSE) EXCEPT !.val = raw_read(m, fd, page, cb), !.cnt = PAGE_SIZE]

\* a loop body that writes back but leaves the slot valid
leave_slot_still_valid(m, fd, index) ==
  IF m.valid[index] /\ m.dest[index][1] = fd /\ m.dirty[index]
  THEN write_page(m, fd, m.dest[index][2], m.buf[index], TRUE, FALSE)
  ELSE m

\* a loop body that does not compare the slot's owner handle with fd
leave_slot_any_owner(m, fd, index) ==
  IF m.valid[index]
  THEN LET m1 == IF m.dirty[index]
                 THEN write_page(m, m.dest[index][1], m.dest[index][2], m.buf[index], TRUE, FALSE)
                 ELSE m
       IN IF m1.res # "ok" THEN [m1 EXCEPT !.res = "panic"]
          ELSE [m1 EXCEPT !.valid[index] = FALSE]
  ELSE m

\* one iteration of the loop of _file_leave_cache
leave_slot(m, fd, index) ==
  IF m.valid[index] /\ m.dest[index][1] = fd
  THEN LET m1 == IF m.dirty[index]
                 THEN write_page(m, fd, m.dest[index][2], m.buf[index], TRUE, FALSE)
                 ELSE m
       IN IF m1.res # "ok" THEN [m1 EXCEPT !.res = "panic"]
          ELSE [m1 EXCEPT !.valid[index] = FALSE]
  ELSE m

\* the index the loop visits after index: the indices outside Slots hold no
\* valid slot, their iterations do nothing and are stepped over
next_index(index, end) ==
  LET later == {i \in Slots : i > index /\ i < end}
  IN IF later = {} THEN end ELSE CHOOSE i \in later : \A j \in later : i <= j

RECURSIVE leave_loop(_, _, _, _)
leave_loop(m, fd, index, end) ==
  IF index >= end \/ m.res # "ok" THEN m
  ELSE leave_loop(leave_slot(m, fd, index), fd, next_index(index, end), end)

\* a close_file and remove_file that leave the cache alone
_file_leave_cache_skipped(m, fd) == m

_file_leave_cache(m, fd) ==
  LET fd1 == fd % (2 ^ FD_FIELD)
      start == fd1 * (2 ^ PAGE_FIELD)
      end == (fd1 + 1) * (2 ^ PAGE_FIELD)
  IN leave_loop(m, fd, next_index(start - 1, end), end)

\* ----------------------------------------------------------- directory
\* a create_file, open_file and remove_file that skip the lookup
contains_key_nocheck(n2r, name) == FALSE

contains_key(n2r, name) == n2r[name] # NoKey

\* an open_file that takes every tracked name for a closed one
has_handle_never(n2r, name) == FALSE

\* the match arm Some(_) of name2raw.get(name).unwrap()
has_handle(n2r, name) == n2r[name] # NoFd

detach_name(n2r, name) == [n2r EXCEPT ![name] = NoFd]

\* a close_file and remove_file that leave the handle in raw2name
remove_raw_forgotten(r2n, fd) == r2n

remove_raw(r2n, fd) == [r2n EXCEPT ![fd] = NoName]

\* a remove_file that resets the entry to None instead of removing it
remove_name_kept(n2r, name) == [n2r EXCEPT ![name] = NoFd]

remove_name(n2r, name) == [n2r EXCEPT ![name] = NoKey]

\* the value nix::Error::invalid_argument()
invalid_argument == "EINVAL"

\* open_file's error for a name that is not tracked
OpenErrUntracked == invalid_argument

\* open_file's error for a name that already has a handle
OpenErrAlreadyOpen == invalid_argument

\* what a call hands back to its caller: Ok or Err(err), the handle of
\* open_file, the buffer and the byte count of read_page and write_page;
\* st = "panic" when the call aborted instead of returning
Ret(op, st, err, fd, val, cnt) == [op |-> op, st |-> st, err |-> err, fd |-> fd, val |-> val, cnt |-> cnt]

Ok(op) == Ret(op, "ok", "", 0, 0, 0)

Err(op, err) == Ret(op, "err", err, 0, 0, 0)

Panic(op) == Ret(op, "panic", "", 0, 0, 0)

Panicked == ret.st = "panic"

\* a call can be made: the process has not aborted and the run has fewer than max calls
Call(max) == ~Panicked /\ ops < max /\ ops' = ops + 1

\* history: the call is not a write_page that returned Ok on a tracked handle
NotAWrite == justWrote' = NoWrite

Store(m) ==
  /\ buf' = m.buf
  /\ valid' = m.valid
  /\ dirty' = m.dirty
  /\ dest' = m.dest
  /\ disk' = m.disk
  /\ fdt' = m.fdt

Init ==
  /\ name2raw = [n \in Names |-> NoKey]
  /\ raw2name = [f \in FDs |-> NoName]
  /\ buf = [i \in Slots |-> 0]
  /\ valid = [i \in Slots |-> FALSE]
  /\ dirty = [i \in Slots |-> FALSE]
  /\ dest = [i \in Slots |-> <<0, 0>>]
  /\ disk = [n \in Names |-> NoFile]
  /\ fdt = [f \in FDs |-> ClosedFd]
  /\ ret = Ok("new")
  /\ lastW = [n \in Names |-> [p \in Pages |-> NoData]]
  /\ closedAfter = [n \in Names |-> [p \in Pages |-> FALSE]]
  /\ justWrote = NoWrite
  /\ ops = 0

\* avail: the descriptors the operating system may hand out
create_file(name, avail, max) ==
  /\ Call(max)
  /\ NotAWrite
  /\ IF contains_key(name2raw, name)
     THEN /\ ret' = Err("create_file", "AlreadyExists")
          /\ UNCHANGED <<name2raw, raw2name, buf, valid, dirty, dest, disk, fdt, lastW, closedAfter>>
     ELSE IF FreeFds(M) \cap avail = {}
     THEN \* File::create needs a descriptor of its own
          /\ ret' = Err("create_file", "EMFILE")
          /\ UNCHANGED <<name2raw, raw2name, buf, valid, dirty, dest, disk, fdt, lastW, closedAfter>>
     ELSE /\ disk' = [disk EXCEPT ![name] = EmptyFile]
          /\ name2raw' = detach_name(name2raw, name)
          /\ ret' = Ok("create_file")
          /\ lastW' = [lastW EXCEPT ![name] = [p \in Pages |-> NoData]]
          /\ closedAfter' = [closedAfter EXCEPT ![name] = [p \in Pages |-> FALSE]]
          /\ UNCHANGED <<raw2name, buf, valid, dirty, dest, fdt>>

open_file(name, avail, max) ==
  /\ Call(max)
  /\ NotAWrite
  /\ UNCHANGED <<buf, valid, dirty, dest, disk, lastW, closedAfter>>
  /\ IF ~contains_key(name2raw, name)
     THEN /\ ret' = Err("open_file", OpenErrUntracked)
          /\ UNCHANGED <<name2raw, raw2name, fdt>>
     ELSE IF name2raw[name] = NoKey
     THEN \* name2raw.get(name).unwrap() on a missing key
          /\ ret' = Panic("open_file")
          /\ UNCHANGED <<name2raw, raw2name, fdt>>
     ELSE IF has_handle(name2raw, name)
     THEN /\ ret' = Err("open_file", OpenErrAlreadyOpen)
          /\ UNCHANGED <<name2raw, raw2name, fdt>>
     ELSE IF FreeFds(M) \cap avail = {} \/ disk[name] = NoFile
     THEN /\ ret' = Err("open_file", IF disk[name] = NoFile THEN "ENOENT" ELSE "EMFILE")
          /\ UNCHANGED <<name2raw, raw2name, fdt>>
     ELSE \E f \in FreeFds(M) \cap avail :
          /\ fdt' = [fdt EXCEPT ![f] = [open |-> TRUE, name |-> name, file |-> NoFile]]
          /\ name2raw' = [name2raw EXCEPT ![name] = f]
          /\ raw2name' = [raw2name EXCEPT ![f] = name]
          /\ ret' = Ret("open_file", "ok", "", f, 0, 0)

close_file(fd, max) ==
  /\ Call(max)
  /\ NotAWrite
  /\ UNCHANGED lastW
  /\ IF raw2name[fd] = NoName
     THEN /\ ret' = Err("close_file", invalid_argument)
          /\ UNCHANGED <<name2raw, raw2name, buf, valid, dirty, dest, disk, fdt, closedAfter>>
     ELSE IF ~contains_key(name2raw, raw2name[fd])
     THEN \* name2raw.get_mut(name).unwrap() on a missing key
          /\ ret' = Panic("close_file")
          /\ UNCHANGED <<name2raw, raw2name, buf, valid, dirty, dest, disk, fdt, closedAfter>>
     ELSE \E m \in {_file_leave_cache(M, fd)} :
          LET name == raw2name[fd]
          IN /\ name2raw' = detach_name(name2raw, name)
             /\ raw2name' = remove_raw(raw2name, fd)
             /\ IF m.res # "ok"
                THEN /\ Store(m)
                     /\ ret' = Panic("close_file")
                     /\ UNCHANGED closedAfter
                ELSE IF ~FdOpen(m, fd)
                THEN /\ Store(m)
                     /\ ret' = Err("close_file", "EBADF")
                     /\ UNCHANGED closedAfter
                ELSE /\ Store([m EXCEPT !.fdt[fd] = ClosedFd])
                     /\ ret' = Ok("close_file")
                     /\ closedAfter' = [closedAfter EXCEPT ![name] = [p \in Pages |-> lastW[name][p] # NoData]]

remove_file(name, max) ==
  /\ Call(max)
  /\ NotAWrite
  /\ IF ~contains_key(name2raw, name)
     THEN /\ ret' = Err("remove_file", "NotFound")
          /\ UNCHANGED <<name2raw, raw2name, buf, valid, dirty, dest, disk, fdt, lastW, closedAfter>>
     ELSE \E m \in {IF name2raw[name] = NoFd THEN M ELSE _file_leave_cache(M, name2raw[name])} :
          LET fd == name2raw[name]
          IN IF m.res # "ok"
             THEN /\ Store(m)
                  /\ ret' = Panic("remove_file")
                  /\ UNCHANGED <<name2raw, raw2name, lastW, closedAfter>>
             ELSE /\ raw2name' = IF fd = NoFd THEN raw2name ELSE remove_raw(raw2name, fd)
                  /\ name2raw' = remove_name(name2raw, name)
                  /\ lastW' = [lastW EXCEPT ![name] = [p \in Pages |-> NoData]]
                  /\ closedAfter' = [closedAfter EXCEPT ![name] = [p \in Pages |-> FALSE]]
                  /\ IF m.disk[name] = NoFile
                     THEN /\ Store(m)
                          /\ ret' = Err("remove_file", "ENOENT")
                     ELSE /\ Store(unlink(m, name))
                          /\ ret' = Ok("remove_file")

\* the error of a failed lseek, read or write
RawErr(fd) == IF FdOpen(M, fd) THEN "EIO" ELSE "EBADF"

\* cb: what the caller's buffer holds before the call; io: the raw calls on an
\* open descriptor succeed.  cb is only observable after a short read, and a
\* raw failure only on a miss of an open descriptor
ReadPage(fd, page, cb, io, max) ==
  /\ Call(max)
  /\ NotAWrite
  /\ cb = 0 \/ (FdOpen(M, fd) /\ ~is_cached(M, fd, page) /\ page >= FileOf(M, fd).size)
  /\ io \/ (~is_cached(M, fd, page) /\ FdOpen(M, fd))
  /\ \E m \in {read_page(M, fd, page, cb, io)} :
        /\ ret' = IF m.res = "ok" THEN Ret("read_page", "ok", "", 0, m.val, m.cnt)
                  ELSE IF m.res = "err" THEN Err("read_page", RawErr(fd))
                  ELSE Panic("read_page")
        /\ Store(m)
  /\ UNCHANGED <<name2raw, raw2name, lastW, closedAfter>>

WritePage(fd, page, b, io, max) ==
  /\ Call(max)
  /\ io \/ (~is_cached(M, fd, page) /\ FdOpen(M, fd))
  /\ \E m \in {write_page(M, fd, page, b, io, FALSE)} :
     LET name == raw2name[fd]
         tracked == m.res = "ok" /\ name # NoName
     IN /\ ret' = IF m.res = "ok" THEN Ret("write_page", "ok", "", 0, 0, m.cnt)
                  ELSE IF m.res = "err" THEN Err("write_page", RawErr(fd))
                  ELSE Panic("write_page")
        /\ Store(m)
        /\ lastW' = IF tracked THEN [lastW EXCEPT ![name][page] = b] ELSE lastW
        /\ closedAfter' = IF tracked THEN [closedAfter EXCEPT ![name][page] = FALSE] ELSE closedAfter
        /\ justWrote' = IF tracked THEN <<fd, page, b>> ELSE NoWrite
  /\ UNCHANGED <<name2raw, raw2name>>

\* a client that makes at most MaxOps calls with any arguments, over storage
\* whose raw calls fail only on a descriptor that is not open
Next ==
  \/ \E name \in Names : create_file(name, LowFds, MaxOps)
  \/ \E name \in Names : open_file(name, LowFds, MaxOps)
  \/ \E fd \in LowFds : close_file(fd, MaxOps)
  \/ \E name \in Names : remove_file(name, MaxOps)
  \/ \E fd \in LowFds, page \in Pages, cb \in Data : ReadPage(fd, page, cb, TRUE, MaxOps)
  \/ \E fd \in LowFds, page \in Pages, b \in Data : WritePage(fd, page, b, TRUE, MaxOps)

Spec == Init /\ [][Next]_vars

DeepNames == 1 .. NumNamesDeep
DeepFds == 3 .. (2 + NumFdsDeep)

\* a client that makes longer runs on fewer files, over storage whose
\* positioned reads and writes can also fail on an open descriptor
NextDeep ==
  \/ \E name \in DeepNames : create_file(name, DeepFds, MaxOpsDeep)
  \/ \E name \in DeepNames : open_file(name, DeepFds, MaxOpsDeep)
  \/ \E fd \in DeepFds : close_file(fd, MaxOpsDeep)
  \/ \E name \in DeepNames : remove_file(name, MaxOpsDeep)
  \/ \E fd \in DeepFds, page \in Pages, cb \in Data, io \in BOOLEAN : ReadPage(fd, page, cb, io, MaxOpsDeep)
  \/ \E fd \in DeepFds, page \in Pages, b \in Data, io \in BOOLEAN : WritePage(fd, page, b, io, MaxOpsDeep)

SpecDeep == Init /\ [][NextDeep]_vars

\* the descriptors whose low FD_FIELD bits are those of descriptor 3: their
\* pairs address the same range of 2^PAGE_FIELD slots
ShareFds == {f \in FDs : f % (2 ^ FD_FIELD) = 3 % (2 ^ FD_FIELD)}

\* a client whose operating system hands out only descriptors of one slot
\* range, that reads into a zeroed buffer and writes one content
NextShare ==
  \/ \E name \in Names : create_file(name, ShareFds, MaxOpsShare)
  \/ \E name \in Names : open_file(name, ShareFds, MaxOpsShare)
  \/ \E fd \in ShareFds : close_file(fd, MaxOpsShare)
  \/ \E name \in Names : remove_file(name, MaxOpsShare)
  \/ \E fd \in ShareFds, page \in Pages : ReadPage(fd, page, 0, TRUE, MaxOpsShare)
  \/ \E fd \in ShareFds, page \in Pages : WritePage(fd, page, MaxData, TRUE, MaxOpsShare)

SpecShare == Init /\ [][NextShare]_vars

\* _index on its own: the arguments are drawn at the start (ret.fd the
\* handle, ret.val the page number) and the call leaves the index in ret.cnt
InitIndex ==
  /\ name2raw = [n \in Names |-> NoKey]
  /\ raw2name = [f \in FDs |-> NoName]
  /\ buf = [i \in Slots |-> 0]
  /\ valid = [i \in Slots |-> FALSE]
  /\ dirty = [i \in Slots |-> FALSE]
  /\ dest = [i \in Slots |-> <<0, 0>>]
  /\ disk = [n \in Names |-> NoFile]
  /\ fdt = [f \in FDs |-> ClosedFd]
  /\ ret \in {Ret("args", "ok", "", fd, page, 0) : fd \in 0 .. MaxIndexFd, page \in 0 .. MaxIndexPage}
  /\ lastW = [n \in Names |-> [p \in Pages |-> NoData]]
  /\ closedAfter = [n \in Names |-> [p \in Pages |-> FALSE]]
  /\ justWrote = NoWrite
  /\ ops = 0

IndexCall ==
  /\ ret.op = "args"
  /\ ret' = Ret("_index", IF _index_asserts(ret.fd, ret.val) THEN "ok" ELSE "panic", "", ret.fd, ret.val, _index(ret.fd, ret.val))
  /\ ops' = ops + 1
  /\ UNCHANGED <<name2raw, raw2name, buf, valid, dirty, dest, disk, fdt, lastW, closedAfter, justWrote>>

NextIndex == IndexCall

SpecIndex == InitIndex /\ [][NextIndex]_vars

\* ------------------------------------------------------------ properties
\* the program's own state and the storage it acts on
prog == <<name2raw, raw2name, buf, valid, dirty, dest, disk, fdt>>

\* the step is the call named, made by the client of Spec
CallsCreate(name) == ret'.op = "create_file" /\ create_file(name, LowFds, MaxOps)

CallsOpen(name) == ret'.op = "open_file" /\ open_file(name, LowFds, MaxOps)

CallsClose(fd) == ret'.op = "close_file" /\ close_file(fd, MaxOps)

CallsRemove(name) == ret'.op = "remove_file" /\ remove_file(name, MaxOps)

CallsRead(fd, page) == ret'.op = "read_page" /\ \E cb \in Data : ReadPage(fd, page, cb, TRUE, MaxOps)

\* a step that is WritePage(fd, page, b) has justWrote' in {NoWrite, <<fd, page, b>>}:
\* formulas test this before CallsWrite to pass over the calls the step is not
CallsWrite(fd, page, b) == ret'.op = "write_page" /\ WritePage(fd, page, b, TRUE, MaxOps)

HandlesOf(r2n, n) == {h \in FDs : r2n[h] = n}

St(n2r, n) == IF n2r[n] = NoKey THEN "Untracked" ELSE IF n2r[n] = NoFd THEN "Closed" ELSE "Open"

\* C4: every name has at most one associated handle, and open_file on a name
\* that already has a handle fails and leaves both directory maps unchanged
SingleOpen ==
  [][ /\ \A n \in Names : Cardinality(HandlesOf(raw2name', n)) <= 1
      /\ \A name \in Names :
           (name2raw[name] \in FDs /\ CallsOpen(name))
             => (ret'.st = "err" /\ UNCHANGED <<name2raw, raw2name>>) ]_vars

\* open_file has been refused while every name is tracked and one is open:
\* the refused open_file was a second open of an open name
SingleOpenWitness ==
  /\ ret = Err("open_file", OpenErrAlreadyOpen)
  /\ \A n \in Names : name2raw[n] # NoKey
  /\ \E n \in Names : name2raw[n] \in FDs

\* C5: name2raw[n] = Some(h) exactly when raw2name[h] = n, after any calls
DirectoryConsistent == \A n \in Names, h \in FDs : (name2raw[n] = h) <=> (raw2name[h] = n)

\* a handle has just been closed while another name is still open
DirectoryConsistentWitness == ret = Ok("close_file") /\ \E n \in Names : name2raw[n] \in FDs

\* C6: create_file on a tracked name, open_file and remove_file on an
\* untracked name and close_file on an untracked handle return an error and
\* leave the maps, the cache and the storage unchanged
LifecycleErrors ==
  [][ /\ \A name \in Names :
           (name2raw[name] # NoKey /\ CallsCreate(name))
             => (ret'.st = "err" /\ UNCHANGED prog)
      /\ \A name \in Names :
           (name2raw[name] = NoKey /\ (CallsOpen(name) \/ CallsRemove(name)))
             => (ret'.st = "err" /\ UNCHANGED prog)
      /\ \A fd \in LowFds :
           (raw2name[fd] = NoName /\ CallsClose(fd))
             => (ret'.st = "err" /\ UNCHANGED prog) ]_vars

\* close_file has been refused when no descriptor is open and a slot still
\* carries the tag of a handle: a handle that was used and closed, or never opened
LifecycleErrorsWitness ==
  /\ ret = Err("close_file", invalid_argument)
  /\ \A h \in FDs : ~fdt[h].open
  /\ \E i \in Slots : dest[i][1] \in FDs

\* C7: the error open_file returns for an untracked name differs from the
\* error it returns for a name that already has a handle
OpenErrorsDistinct ==
  [][ \A name \in Names :
        (ret'.st = "err" /\ CallsOpen(name))
          => /\ name2raw[name] = NoKey => ret'.err # OpenErrAlreadyOpen
             /\ name2raw[name] \in FDs => ret'.err # OpenErrUntracked ]_vars

\* C8: create_file on an untracked name, open_file on a closed name and
\* remove_file on a tracked name succeed whenever the operating system has a
\* descriptor to give, and when open_file returns a handle no valid slot is
\* owned by that handle
FreshOnOpen ==
  [][ /\ (ret'.op = "open_file" /\ ret'.st = "ok")
           => \A i \in Slots : ~(valid'[i] /\ dest'[i][1] = ret'.fd)
      /\ \A name \in Names :
           /\ (name2raw[name] = NoKey /\ FreeFds(M) \cap LowFds # {} /\ CallsCreate(name)) => ret'.st = "ok"
           /\ (name2raw[name] = NoFd /\ FreeFds(M) \cap LowFds # {} /\ CallsOpen(name)) => ret'.st = "ok"
           /\ (name2raw[name] # NoKey /\ CallsRemove(name)) => ret'.st = "ok" ]_vars

\* open_file has just returned a handle number that owned a slot before
FreshOnOpenWitness == ret.op = "open_file" /\ ret.st = "ok" /\ \E i \in Slots : dest[i][1] = ret.fd /\ ~valid[i]

\* C9: close_file on a handle whose name was removed while open succeeds and
\* releases the descriptor
OrphanCloseable ==
  [][ \A fd \in LowFds :
        (fdt[fd].open /\ fdt[fd].name = NoName /\ CallsClose(fd))
          => (ret'.st = "ok" /\ ~fdt'[fd].open) ]_vars

\* C10: a name moves only Untracked -> Closed -> Open <-> Closed -> Untracked
\* and Open -> Untracked, each successful call starts from the state it needs,
\* and a call changes the state of no name but its own
PerNameStateMachine ==
  [][ \A n \in Names :
        LET a == St(name2raw, n)
            b == St(name2raw', n)
            closes == \E fd \in LowFds : raw2name[fd] = n /\ CallsClose(fd)
        IN /\ a # b => /\ <<a, b>> \in {<<"Untracked", "Closed">>, <<"Closed", "Open">>, <<"Open", "Closed">>, <<"Closed", "Untracked">>, <<"Open", "Untracked">>}
                       /\ CallsCreate(n) \/ CallsOpen(n) \/ CallsRemove(n) \/ closes
           /\ (a = "Open" /\ b = "Open") => name2raw'[n] = name2raw[n]
           /\ (ret'.st = "ok" /\ CallsCreate(n)) => (a = "Untracked" /\ b = "Closed")
           /\ (ret'.st = "ok" /\ CallsOpen(n)) => (a = "Closed" /\ b = "Open")
           /\ (ret'.st = "ok" /\ closes) => (a = "Open" /\ b = "Closed")
           /\ (ret'.st = "ok" /\ CallsRemove(n)) => (a \in {"Closed", "Open"} /\ b = "Untracked") ]_vars

\* an open name has just been removed while another name is still tracked
PerNameStateMachineWitness == ret = Ok("remove_file") /\ (\E h \in FDs : fdt[h].open /\ fdt[h].name = NoName) /\ \E n \in Names : name2raw[n] # NoKey

\* C1: a read_page on a handle of a reopened file returns, for a page not
\* written since the close, the content of the last write_page before the close
FlushOnClose ==
  [][ \A fd \in DeepFds, page \in Pages :
        (/\ raw2name[fd] # NoName
         /\ closedAfter[raw2name[fd]][page]
         /\ ret'.op = "read_page" /\ ret'.st = "ok"
         /\ \E cb \in Data, io \in BOOLEAN : ReadPage(fd, page, cb, io, MaxOpsDeep))
        => ret'.val = lastW[raw2name[fd]][page] ]_vars

\* read_page(fd, page) returns b, whatever the caller's buffer held
ReadsBack(m, fd, page, b) ==
  \A cb \in Data :
    /\ read_page(m, fd, page, cb, TRUE).res = "ok"
    /\ read_page(m, fd, page, cb, TRUE).val = b

\* C2: a read_page or write_page that installs a pair into a slot holding
\* dirty content of another pair returns, leaves the old pair's content in the
\* old handle's file, where a later read_page finds it, and retags the slot
EvictionWritesBack ==
  [][ \A fd \in LowFds, page \in Pages :
        LET i == _index(fd, page)
        IN (/\ valid[i] /\ dirty[i]
            /\ dest[i] # <<fd, page>>
            /\ ret'.st # "err"
            /\ CallsRead(fd, page) \/ \E b \in Data : CallsWrite(fd, page, b))
           => /\ ret'.st = "ok"
              /\ dest'[i] = <<fd, page>>
              /\ FdOpen(M', dest[i][1])
              /\ FileOf(M', dest[i][1]).data[dest[i][2]] = buf[i]
              /\ ReadsBack(M', dest[i][1], dest[i][2], buf[i]) ]_vars

\* C3: after a write_page(h,p,b) on a tracked handle, directly or after one
\* read_page or write_page of another pair, read_page(h,p) returns b
RoundTrip ==
  [][ /\ justWrote' # NoWrite
           => ReadsBack(M', justWrote'[1], justWrote'[2], justWrote'[3])
      /\ \A fd \in LowFds, page \in Pages :
           (/\ justWrote # NoWrite
            /\ <<fd, page>> # <<justWrote[1], justWrote[2]>>
            /\ CallsRead(fd, page) \/ \E b \in Data : CallsWrite(fd, page, b))
           => (ret'.st # "panic" /\ ReadsBack(M', justWrote[1], justWrote[2], justWrote[3])) ]_vars

\* (fd, page) is resident in the current state
Resident(fd, page) == valid[_index(fd, page)] /\ dest[_index(fd, page)] = <<fd, page>>

\* the slots of the cache: content, valid flag, dirty flag and owner
slots == <<buf, valid, dirty, dest>>

\* C11: a read_page or write_page that returns an error leaves every slot as
\* it was, and one whose pair is not resident and whose raw seek, read or
\* write fails (the descriptor is not open) does return the error
NoPartialSuccess ==
  [][ ret'.op \in {"read_page", "write_page"} =>
        IF ret'.st = "err" THEN UNCHANGED slots
        ELSE \A fd \in LowFds, page \in Pages :
               (~fdt[fd].open /\ ~Resident(fd, page))
                 => ~(\/ CallsRead(fd, page)
                      \/ \E b \in Data : justWrote' \in {NoWrite, <<fd, page, b>>} /\ CallsWrite(fd, page, b)) ]_vars

\* a read_page has failed on a descriptor that is not open while the cache
\* holds a valid slot
NoPartialSuccessWitness == ret = Err("read_page", "EBADF") /\ \E i \in Slots : valid[i]

\* C12: every call returns Ok or Err; none aborts partway
NoAbort == ret.st # "panic"

\* the content the reference page store holds for the file behind a handle,
\* NoData when the page has not been written
Reference(fd, page) == IF raw2name[fd] = NoName THEN NoData ELSE lastW[raw2name[fd]][page]

\* C13: a read_page that returns Ok on an open handle whose page was written
\* returns what the reference store, updated by every write_page that
\* returned Ok, holds for that page
MatchesReference ==
  [][ \A fd \in DeepFds, page \in Pages :
        (/\ Reference(fd, page) # NoData
         /\ ret'.op = "read_page" /\ ret'.st = "ok"
         /\ \E cb \in Data, io \in BOOLEAN : ReadPage(fd, page, cb, io, MaxOpsDeep))
        => ret'.val = Reference(fd, page) ]_vars

\* C14: after close_file(h) returns Ok, and after remove_file returns Ok for a
\* name open with handle h, no slot is valid with owner handle h
NoSlotAfterRelease ==
  [][ \A fd \in LowFds :
        (/\ ret'.st = "ok"
         /\ CallsClose(fd) \/ \E n \in Names : name2raw[n] = fd /\ CallsRemove(n))
        => \A i \in Slots : ~(valid'[i] /\ dest'[i][1] = fd) ]_vars

\* an open name has just been removed and a slot its handle owned is invalid
NoSlotAfterReleaseWitness ==
  /\ ret = Ok("remove_file")
  /\ \E h \in FDs : fdt[h].open /\ fdt[h].name = NoName /\ \E i \in Slots : dest[i][1] = h /\ ~valid[i]

\* C15: close_file(h), and remove_file of a name open with h, leave the
\* content, valid flag, dirty flag and owner of every slot whose owner handle
\* is not h unchanged, also in the index range h's low bits address
OtherSlotsKept ==
  [][ \A fd \in ShareFds :
        (/\ ret'.op \in {"close_file", "remove_file"}
         /\ close_file(fd, MaxOpsShare) \/ \E n \in Names : name2raw[n] = fd /\ remove_file(n, MaxOpsShare))
        => \A i \in Slots :
             dest[i][1] # fd => (buf'[i] = buf[i] /\ valid'[i] = valid[i] /\ dirty'[i] = dirty[i] /\ dest'[i] = dest[i]) ]_vars

\* a handle has just been closed and a slot owned by another handle with the
\* same low bits, in the range the close scanned, is still valid
OtherSlotsKeptWitness ==
  /\ ret = Ok("close_file")
  /\ \E i \in Slots, h \in ShareFds :
       /\ valid[i] /\ dest[i][1] \in ShareFds \ {h}
       /\ ~fdt[h].open
       /\ \A g \in FDs \ {h, dest[i][1]} : ~fdt[g].open

\* C16: a read_page that finds its pair resident returns the slot's content
\* and changes no slot and no file; a write_page that finds its pair resident
\* sets that slot's content to the written buffer and its dirty flag, and
\* changes nothing else
HitsStayInCache ==
  [][ /\ ret'.op = "read_page" =>
           \A fd \in LowFds, page \in Pages :
             (Resident(fd, page) /\ CallsRead(fd, page))
               => (ret'.st = "ok" /\ ret'.val = buf[_index(fd, page)] /\ UNCHANGED prog)
      /\ ret'.op = "write_page" =>
           \A fd \in LowFds, page \in Pages, b \in Data :
             (Resident(fd, page) /\ justWrote' \in {NoWrite, <<fd, page, b>>} /\ CallsWrite(fd, page, b))
               => /\ ret'.st = "ok"
                  /\ buf' = [buf EXCEPT ![_index(fd, page)] = b]
                  /\ dirty' = [dirty EXCEPT ![_index(fd, page)] = TRUE]
                  /\ UNCHANGED <<valid, dest, disk, fdt, name2raw, raw2name>> ]_vars

\* a write_page has just hit the cache: its slot is dirty, and the file does
\* not hold the written content
HitsStayInCacheWitness ==
  /\ ret.op = "write_page" /\ ret.st = "ok" /\ justWrote # NoWrite
  /\ dirty[_index(justWrote[1], justWrote[2])]
  /\ FileOf(M, justWrote[1]).data[justWrote[2]] # justWrote[3]

\* C17: a write_page(h,p,b) that finds (h,p) not resident and returns Ok leaves
\* b at page p of h's file, and the slot of (h,p) valid, not dirty, owned by
\* (h,p) and holding b
WriteMissThrough ==
  [][ (ret'.op = "write_page" /\ ret'.st = "ok") =>
      \A fd \in LowFds, page \in Pages, b \in Data :
        (~Resident(fd, page) /\ justWrote' \in {NoWrite, <<fd, page, b>>} /\ CallsWrite(fd, page, b))
          => /\ FdOpen(M', fd)
             /\ page < FileOf(M', fd).size
             /\ FileOf(M', fd).data[page] = b
             /\ valid'[_index(fd, page)]
             /\ ~dirty'[_index(fd, page)]
             /\ dest'[_index(fd, page)] = <<fd, page>>
             /\ buf'[_index(fd, page)] = b ]_vars

\* a write_page of a non-zero page has just missed the cache: its slot is
\* clean and the file holds the content
WriteMissThroughWitness ==
  /\ ret.op = "write_page" /\ ret.st = "ok" /\ justWrote # NoWrite
  /\ justWrote[3] # 0
  /\ ~dirty[_index(justWrote[1], justWrote[2])]
  /\ FileOf(M, justWrote[1]).data[justWrote[2]] = justWrote[3]

\* the bytes the file behind an open handle holds for a page; a page beyond
\* the end of the file reads as the zero page
FileBytes(fd, page) == FileOf(M, fd).data[page]

\* C18: every valid slot holds the current content of its owner's page (the
\* last write_page that returned Ok, or else the file's bytes), and a valid
\* slot that differs from the file's bytes is dirty
SlotCoherent ==
  \A i \in Slots :
    valid[i] =>
      LET h == dest[i][1]
          p == dest[i][2]
      IN /\ FdOpen(M, h)
         /\ buf[i] = (IF Reference(h, p) # NoData THEN Reference(h, p) ELSE FileBytes(h, p))
         /\ buf[i] # FileBytes(h, p) => dirty[i]

\* C19: a read_page that misses the cache returns the number of bytes the raw
\* read transferred, and a write_page that misses returns the number of bytes
\* the raw write transferred
ReturnsBytesTransferred ==
  [][ \A fd \in LowFds, page \in Pages :
        (ret'.st = "ok" /\ ~Resident(fd, page))
          => /\ CallsRead(fd, page) => ret'.cnt = raw_read_count(M, fd, page)
             /\ (\E b \in Data : CallsWrite(fd, page, b)) => ret'.cnt = PAGE_SIZE ]_vars

\* x << n
Shl(x, n) == x * (2 ^ n)

\* a | b on non-negative integers, bit by bit
RECURSIVE BitOr(_, _)
BitOr(a, b) ==
  IF a = 0 THEN b
  ELSE IF b = 0 THEN a
  ELSE 2 * BitOr(a \div 2, b \div 2) + (IF a % 2 = 1 \/ b % 2 = 1 THEN 1 ELSE 0)

\* C20: for a non-negative handle and page number _index passes its three
\* assertions and returns ((handle mod 2^FD_FIELD) << PAGE_FIELD) |
\* (page mod 2^PAGE_FIELD), which lies in [0, BUF_SIZE)
IndexAddresses ==
  ret.op = "_index" =>
    /\ ret.st = "ok"
    /\ ret.cnt = BitOr(Shl(ret.fd % (2 ^ FD_FIELD), PAGE_FIELD), ret.val % (2 ^ PAGE_FIELD))
    /\ ret.cnt \in 0 .. (BUF_SIZE - 1)

\* _index has returned for a handle above the handle field and a page number
\* above the page field
IndexAddressesWitness ==
  /\ ret.op = "_index"
  /\ ret.fd >= 2 ^ FD_FIELD /\ ret.fd % 2 = 1
  /\ ret.val > 2 ^ PAGE_FIELD

\* the first index of the range _file_leave_cache(h) scans, and the index after its last
RangeStart(h) == Shl(h % (2 ^ FD_FIELD), PAGE_FIELD)

RangeEnd(h) == Shl((h % (2 ^ FD_FIELD)) + 1, PAGE_FIELD)

\* C21: every valid slot at index i has an owner (h,p) with _index(h,p) = i;
\* so a pair is resident only in the slot it addresses, two distinct pairs
\* that map to one index are never resident together, and every valid slot
\* owned by h lies in the range [RangeStart(h), RangeEnd(h)) that close scans
TagPlacement ==
  /\ \A i \in Slots : valid[i] => _index(dest[i][1], dest[i][2]) = i
  /\ \A i \in Slots, fd \in FDs, page \in Pages :
       (valid[i] /\ dest[i] = <<fd, page>>) => i = _index(fd, page)
  /\ \A fd1 \in FDs, fd2 \in FDs, page1 \in Pages, page2 \in Pages :
       (/\ <<fd1, page1>> # <<fd2, page2>>
        /\ _index(fd1, page1) = _index(fd2, page2))
       => ~(Resident(fd1, page1) /\ Resident(fd2, page2))
  /\ \A i \in Slots, h \in FDs :
       (valid[i] /\ dest[i][1] = h) => (RangeStart(h) <= i /\ i < RangeEnd(h))

\* a slot of the upper range is valid and owned by a pair whose page number
\* wraps onto it, while the file also has the page the slot would otherwise hold
TagPlacementWitness ==
  \E i \in Slots :
    /\ i >= 2 ^ PAGE_FIELD
    /\ valid[i]
    /\ dest[i][2] >= 2 ^ PAGE_FIELD
    /\ FdOpen(M, dest[i][1])
    /\ FileOf(M, dest[i][1]).data[dest[i][2] % (2 ^ PAGE_FIELD)] # 0

\* C22: a slot whose dirty flag is set is valid
DirtyImpliesValid == \A i \in Slots : dirty[i] => valid[i]

====
